---- MODULE Spec2Model ----
(***************************************************************************)
(* Story Maker API (main.py): the treatment-generation endpoint, the       *)
(* health probe and the start-up initialisation of the global AI model.    *)
(*                                                                         *)
(* A request is a call of a route handler.  create_treatment receives a    *)
(* PlotInput whose plot is a str; bodies that do not parse into a          *)
(* PlotInput never reach the handler and are outside this model.           *)
(* Texts (plots, prompts, generated text, messages) are sequences of       *)
(* tokens.  Code between two awaits runs without interruption, so a        *)
(* handler is one action up to its provider call and one action after it.  *)
(***************************************************************************)
EXTENDS Integers, Sequences, FiniteSets, TLC

\* ---- bounds -------------------------------------------------------------
NumRequests == 2
MaxPlotLen == 2
MaxTextLen == 2

Reqs == 1..NumRequests
PlotChars == {"a"}
TextChars == {"t"}

RECURSIVE SeqsUpTo(_, _)
SeqsUpTo(S, n) ==
    IF n = 0 THEN {<<>>}
    ELSE LET shorter == SeqsUpTo(S, n - 1)
         IN  shorter \cup {Append(s, c) : s \in {x \in shorter : Len(x) = n - 1}, c \in S}

Plots == SeqsUpTo(PlotChars, MaxPlotLen)
Texts == SeqsUpTo(TextChars, MaxTextLen)

\* ---- Python values ------------------------------------------------------
\* An optional string: None or a str.
NoneStr == [none |-> TRUE, str |-> <<>>]
Str(s) == [none |-> FALSE, str |-> s]
\* Python truthiness of an optional string: None and "" are falsy.
FalsyStr(v) == v.none \/ Len(v.str) = 0

\* A provider response object: None or an object with a .text attribute.
NoneResponse == [none |-> TRUE, text |-> NoneStr]
Response(t) == [none |-> FALSE, text |-> t]

\* Exceptions.  HTTPException is a subclass of Exception.
NoException == [type |-> "none", status |-> 0, detail |-> <<>>]
HTTPException(status, detail) == [type |-> "HTTPException", status |-> status, detail |-> detail]
ProviderError(msg) == [type |-> "Exception", status |-> 0, detail |-> msg]

\* Outcome of a function call: a returned value or a raised exception.
Returned(v) == [raised |-> FALSE, exc |-> NoException, value |-> v]
Raised(e) == [raised |-> TRUE, exc |-> e, value |-> <<>>]

\* ---- constants of the program -------------------------------------------
ModelName == "gemini-2.0-flash"
NoModel == "None"

UnavailableDetail == <<"AI Model not available">>
EmptyPlotDetail == <<"Plot cannot be empty">>
EmptyGenerationDetail == <<"Failed to generate story treatment.", "The model returned an empty response.">>
InternalErrorDetail == <<"Failed to generate story treatment due to an internal error.">>
RootPayload == <<"API is running">>

PromptHead == <<"Expand the following story plot into a detailed story in just 250 words. Focus on outlining key scenes, character arcs, and potential turning points.", "Plot:">>
PromptTail == <<"Treatment:">>

\* ---- environment --------------------------------------------------------
\* os.getenv("GOOGLE_API_KEY"): unset, set to "", or set to a key.
ApiKeys == {NoneStr, Str(<<>>), Str(<<"key">>)}
\* What str(e) of an error raised by the provider call can be.
ProviderErrors == {ProviderError(<<"429", "quota exceeded">>), ProviderError(<<"connection reset">>)}
\* What one generate_content_async call can do.
ProviderReplies ==
    {[kind |-> "raise", exc |-> e, response |-> NoneResponse] : e \in ProviderErrors}
    \cup {[kind |-> "return", exc |-> NoException, response |-> NoneResponse]}
    \cup {[kind |-> "return", exc |-> NoException, response |-> Response(NoneStr)]}
    \cup {[kind |-> "return", exc |-> NoException, response |-> Response(Str(t))] : t \in Texts}
NoReply == [kind |-> "pending", exc |-> NoException, response |-> NoneResponse]

NoResponse == [status |-> 0, field |-> "none", text |-> <<>>]

VARIABLES api_key, configure_ok, model, pc, route, plot, prompt, calls, reply, http

vars == <<api_key, configure_ok, model, pc, route, plot, prompt, calls, reply, http>>

TypeOK ==
    /\ api_key \in ApiKeys
    /\ configure_ok \in BOOLEAN
    /\ model \in {NoModel, ModelName}
    /\ pc \in [Reqs -> {"idle", "awaiting", "resumable", "done"}]
    /\ route \in [Reqs -> {"none", "GET /", "POST /generate-treatment"}]
    /\ plot \in [Reqs -> Plots]
    /\ calls \in [Reqs -> 0..2]
    /\ reply \in [Reqs -> ProviderReplies \cup {NoReply}]

\* ---- start-up (main.py 17-31) -------------------------------------------
\* The global model after the module has been imported: None when the key is
\* missing or empty, None when configuring raised, the model handle otherwise.
InitModelIgnoringFailure(key, ok) == IF FalsyStr(key) THEN NoModel ELSE ModelName

InitModel(key, ok) ==
    IF FalsyStr(key) THEN NoModel
    ELSE IF ok THEN ModelName
    ELSE NoModel

Init ==
    /\ api_key \in ApiKeys
    /\ configure_ok \in BOOLEAN
    /\ model = InitModel(api_key, configure_ok)
    /\ pc = [r \in Reqs |-> "idle"]
    /\ route = [r \in Reqs |-> "none"]
    /\ plot = [r \in Reqs |-> <<>>]
    /\ prompt = [r \in Reqs |-> <<>>]
    /\ calls = [r \in Reqs |-> 0]
    /\ reply = [r \in Reqs |-> NoReply]
    /\ http = [r \in Reqs |-> NoResponse]

\* ---- generate_treatment, up to the provider call (main.py 42-55) --------
\* The exception the two guards raise, or NoException when both pass.
GuardsEmptyPlotFirst(m, plot_text) ==
    IF Len(plot_text) = 0 THEN HTTPException(400, EmptyPlotDetail)
    ELSE IF m = NoModel THEN HTTPException(503, UnavailableDetail)
    ELSE NoException

GuardsNoPlotCheck(m, plot_text) ==
    IF m = NoModel THEN HTTPException(503, UnavailableDetail) ELSE NoException

GuardsNoModelCheck(m, plot_text) ==
    IF Len(plot_text) = 0 THEN HTTPException(400, EmptyPlotDetail) ELSE NoException

Guards(m, plot_text) ==
    IF m = NoModel THEN HTTPException(503, UnavailableDetail)
    ELSE IF Len(plot_text) = 0 THEN HTTPException(400, EmptyPlotDetail)
    ELSE NoException

BuildPrompt(plot_text) == PromptHead \o plot_text \o PromptTail

\* ---- generate_treatment, after the provider call (main.py 56-75) --------
\* The body of the try block, given what the awaited call did.
TryBodyTruncating(rep) ==
    IF rep.kind = "raise" THEN Raised(rep.exc)
    ELSE IF rep.response.none \/ FalsyStr(rep.response.text)
         THEN Raised(HTTPException(500, EmptyGenerationDetail))
    ELSE Returned(SubSeq(rep.response.text.str, 1, Len(rep.response.text.str) - 1))

TryBodyNoEmptyCheck(rep) ==
    IF rep.kind = "raise" THEN Raised(rep.exc)
    ELSE IF rep.response.none \/ rep.response.text.none
         THEN Raised(ProviderError(<<"'NoneType' object">>))
    ELSE Returned(rep.response.text.str)

TryBody(rep) ==
    IF rep.kind = "raise" THEN Raised(rep.exc)
    ELSE IF rep.response.none \/ FalsyStr(rep.response.text)
         THEN Raised(HTTPException(500, EmptyGenerationDetail))
    ELSE Returned(rep.response.text.str)

\* except Exception as e: every exception the try block raised, the
\* HTTPException of line 62 included, is replaced by the generic one.
ExceptClauseEchoing(outcome) ==
    IF outcome.raised
    THEN Raised(HTTPException(500, InternalErrorDetail \o outcome.exc.detail))
    ELSE outcome

ExceptClause(outcome) ==
    IF outcome.raised
    THEN Raised(HTTPException(500, InternalErrorDetail))
    ELSE outcome

\* ---- the HTTP boundary (main.py 100-109) --------------------------------
\* An HTTPException becomes a response with its status and detail; a
\* returned treatment becomes 200 with a TreatmentOutput body.
ToHttp(outcome) ==
    IF outcome.raised
    THEN [status |-> outcome.exc.status, field |-> "detail", text |-> outcome.exc.detail]
    ELSE [status |-> 200, field |-> "treatment", text |-> outcome.value]

\* GET /
Root(r) ==
    /\ pc[r] = "idle"
    /\ pc' = [pc EXCEPT ![r] = "done"]
    /\ route' = [route EXCEPT ![r] = "GET /"]
    /\ http' = [http EXCEPT ![r] = [status |-> 200, field |-> "status", text |-> RootPayload]]
    /\ UNCHANGED <<api_key, configure_ok, model, plot, prompt, calls, reply>>

\* POST /generate-treatment: create_treatment runs generate_treatment up to
\* the await of generate_content_async, or to the exception a guard raises.
CreateTreatment(r, p) ==
    /\ pc[r] = "idle"
    /\ route' = [route EXCEPT ![r] = "POST /generate-treatment"]
    /\ plot' = [plot EXCEPT ![r] = p]
    /\ LET e == Guards(model, p) IN
        IF e # NoException
        THEN /\ http' = [http EXCEPT ![r] = ToHttp(Raised(e))]
             /\ pc' = [pc EXCEPT ![r] = "done"]
             /\ UNCHANGED <<prompt, calls>>
        ELSE /\ prompt' = [prompt EXCEPT ![r] = BuildPrompt(p)]
             /\ calls' = [calls EXCEPT ![r] = @ + 1]
             /\ pc' = [pc EXCEPT ![r] = "awaiting"]
             /\ UNCHANGED http
    /\ UNCHANGED <<api_key, configure_ok, model, reply>>

\* The provider answers the call of request r: the awaited call returns a
\* response or raises.
ProviderAnswers(r, rep) ==
    /\ pc[r] = "awaiting"
    /\ reply' = [reply EXCEPT ![r] = rep]
    /\ pc' = [pc EXCEPT ![r] = "resumable"]
    /\ UNCHANGED <<api_key, configure_ok, model, route, plot, prompt, calls, http>>

\* The event loop resumes request r after its await: the rest of the try
\* block, the except clause, and the handler's return.
ResumeRetrying(r) ==
    /\ pc[r] = "resumable"
    /\ LET outcome == ExceptClause(TryBody(reply[r])) IN
        IF outcome.raised /\ calls[r] < 2
        THEN /\ calls' = [calls EXCEPT ![r] = @ + 1]
             /\ pc' = [pc EXCEPT ![r] = "awaiting"]
             /\ UNCHANGED http
        ELSE /\ http' = [http EXCEPT ![r] = ToHttp(outcome)]
             /\ pc' = [pc EXCEPT ![r] = "done"]
             /\ UNCHANGED calls
    /\ UNCHANGED <<api_key, configure_ok, model, route, plot, prompt, reply>>

ResumeDroppingModel(r) ==
    /\ pc[r] = "resumable"
    /\ LET outcome == ExceptClause(TryBody(reply[r])) IN
        /\ http' = [http EXCEPT ![r] = ToHttp(outcome)]
        /\ model' = IF outcome.raised THEN NoModel ELSE model
    /\ pc' = [pc EXCEPT ![r] = "done"]
    /\ UNCHANGED <<api_key, configure_ok, route, plot, prompt, calls, reply>>

Resume(r) ==
    /\ pc[r] = "resumable"
    /\ http' = [http EXCEPT ![r] = ToHttp(ExceptClause(TryBody(reply[r])))]
    /\ pc' = [pc EXCEPT ![r] = "done"]
    /\ UNCHANGED <<api_key, configure_ok, model, route, plot, prompt, calls, reply>>

Next ==
    \E r \in Reqs :
        \/ Root(r)
        \/ \E p \in Plots : CreateTreatment(r, p)
        \/ \E rep \in ProviderReplies : ProviderAnswers(r, rep)
        \/ Resume(r)

Spec == Init /\ [][Next]_vars

\* ---- vocabulary of the properties ---------------------------------------
IsPost(r) == route[r] = "POST /generate-treatment"
IsGet(r) == route[r] = "GET /"
Finished(r) == pc[r] = "done"
InFlight(r) == pc[r] \in {"awaiting", "resumable"}
Answered(r) == reply[r] # NoReply
\* The provider call returned (did not raise) but gave no usable text.
EmptyReply(rep) == rep.kind = "return" /\ (rep.response.none \/ FalsyStr(rep.response.text))
\* The provider call returned non-empty text.
TextReply(rep) == rep.kind = "return" /\ ~rep.response.none /\ ~FalsyStr(rep.response.text)
\* Message d has the token sequence t inside it.
Contains(d, t) == \E i \in 1..Len(d) : i + Len(t) - 1 <= Len(d) /\ SubSeq(d, i, i + Len(t) - 1) = t

\* C1 (as claimed): every finished POST /generate-treatment with an empty
\* plot was answered 400, whether or not the model is configured.
C1_EmptyPlotAlways400 ==
    \A r \in Reqs : (IsPost(r) /\ Finished(r) /\ Len(plot[r]) = 0) => http[r].status = 400

\* C1 (amended): a finished POST with an empty plot was answered 400 "Plot
\* cannot be empty" when the model is configured, and 503 when it is not;
\* either way the provider was not called.
C1_EmptyPlot400WhenConfigured ==
    \A r \in Reqs : (IsPost(r) /\ Finished(r) /\ Len(plot[r]) = 0) =>
        /\ calls[r] = 0
        /\ model # NoModel => http[r] = [status |-> 400, field |-> "detail", text |-> EmptyPlotDetail]
        /\ model = NoModel => http[r].status = 503

C1_Witness ==
    \E r \in Reqs : IsPost(r) /\ Finished(r) /\ Len(plot[r]) = 0 /\ model # NoModel /\ http[r].status = 400

\* C2: when the provider call returned without raising but with a null
\* response or null/empty text, the request was answered 500 with the
\* "model returned an empty response" detail, not the generic detail.
C2_EmptyGenerationMessage ==
    \A r \in Reqs : (IsPost(r) /\ Finished(r) /\ EmptyReply(reply[r])) =>
        /\ http[r].status = 500
        /\ http[r].text = EmptyGenerationDetail
        /\ http[r].text # InternalErrorDetail

\* C3: a finished POST with a non-empty plot, the model configured and the
\* provider returning non-empty text T was answered 200 with treatment
\* exactly T.
C3_SuccessReturnsProviderText ==
    \A r \in Reqs : (IsPost(r) /\ Finished(r) /\ Len(plot[r]) > 0 /\ model # NoModel /\ TextReply(reply[r])) =>
        http[r] = [status |-> 200, field |-> "treatment", text |-> reply[r].response.text.str]

C3_Witness ==
    \E r \in Reqs : /\ IsPost(r) /\ Finished(r) /\ Len(plot[r]) > 0 /\ model # NoModel
                    /\ TextReply(reply[r]) /\ Len(reply[r].response.text.str) = MaxTextLen
                    /\ http[r].status = 200

\* C4: when the credential is absent or configuring failed at start-up, the
\* model is unset, every finished POST with a non-empty plot was answered
\* 503, and every finished GET / was answered 200 with the static payload.
C4_UnsetHandle503RootStill200 ==
    (FalsyStr(api_key) \/ ~configure_ok) =>
        /\ model = NoModel
        /\ \A r \in Reqs : (IsPost(r) /\ Finished(r) /\ Len(plot[r]) > 0) => http[r].status = 503
        /\ \A r \in Reqs : (IsGet(r) /\ Finished(r)) =>
                http[r] = [status |-> 200, field |-> "status", text |-> RootPayload]

C4_Witness ==
    /\ ~FalsyStr(api_key) /\ ~configure_ok
    /\ \E r, q \in Reqs : /\ IsPost(r) /\ Finished(r) /\ Len(plot[r]) > 0 /\ http[r].status = 503
                          /\ IsGet(q) /\ Finished(q) /\ http[q].status = 200

\* C5: when the provider call raised, the request was answered 500 with
\* the one generic detail, which does not contain the text of the error
\* raised; any two such requests got the same response.
C5_RaisedErrorGenericMessage ==
    /\ \A r \in Reqs : (IsPost(r) /\ Finished(r) /\ reply[r].kind = "raise") =>
            /\ http[r] = [status |-> 500, field |-> "detail", text |-> InternalErrorDetail]
            /\ ~Contains(http[r].text, reply[r].exc.detail)
    /\ \A r, q \in Reqs : (Finished(r) /\ Finished(q) /\ reply[r].kind = "raise" /\ reply[q].kind = "raise") =>
            http[r] = http[q]

C5_Witness ==
    \E r, q \in Reqs : /\ Finished(r) /\ Finished(q)
                       /\ reply[r].kind = "raise" /\ reply[q].kind = "raise" /\ reply[r] # reply[q]
                       /\ http[r].status = 500

\* C6: no provider call has been started or is in flight while the model is
\* unset; with the model unset a finished POST was answered 503 and never
\* reached the provider.
C6_NoProviderCallWithoutHandle ==
    \A r \in Reqs :
        /\ (InFlight(r) \/ calls[r] > 0 \/ Answered(r)) => model # NoModel
        /\ (model = NoModel /\ IsPost(r) /\ Finished(r)) =>
                /\ http[r] = [status |-> 503, field |-> "detail", text |-> UnavailableDetail]
                /\ calls[r] = 0

C6_Witness ==
    \E r \in Reqs : model = NoModel /\ IsPost(r) /\ Finished(r) /\ http[r].status = 503 /\ calls[r] = 0

\* C7: a POST has issued exactly one provider call once it passed both
\* guards and none otherwise, never more than one; a request whose call
\* raised or came back empty finished with 500 after that single call.
C7_OneProviderCallNoRetry ==
    \A r \in Reqs :
        /\ calls[r] <= 1
        /\ (IsPost(r) /\ (model = NoModel \/ Len(plot[r]) = 0)) => calls[r] = 0
        /\ (IsPost(r) /\ model # NoModel /\ Len(plot[r]) > 0) => calls[r] = 1
        /\ IsGet(r) => calls[r] = 0
        /\ (IsPost(r) /\ Finished(r) /\ Answered(r) /\ ~TextReply(reply[r])) =>
                calls[r] = 1 /\ http[r].status = 500

C7_Witness ==
    \E r, q \in Reqs : /\ IsPost(r) /\ Finished(r) /\ reply[r].kind = "raise"
                       /\ calls[r] = 1 /\ http[r].status = 500
                       /\ IsPost(q) /\ Finished(q) /\ Len(plot[q]) = 0 /\ calls[q] = 0

\* C8: with the model unset, every finished POST was answered 503 "AI Model
\* not available", whatever its plot, the empty plot included.
C8_Unavailable503AnyPlot ==
    model = NoModel =>
        \A r \in Reqs : (IsPost(r) /\ Finished(r)) =>
            http[r] = [status |-> 503, field |-> "detail", text |-> UnavailableDetail]

C8_Witness ==
    /\ model = NoModel
    /\ \E r, q \in Reqs : /\ IsPost(r) /\ Finished(r) /\ Len(plot[r]) = 0 /\ http[r].status = 503
                          /\ IsPost(q) /\ Finished(q) /\ Len(plot[q]) > 0 /\ http[q].status = 503

\* C9: requests are independent.  Two finished POSTs with the same plot and
\* the same reply to their own call got the same response, in whatever
\* order they were resumed; and every step touches the state of one request
\* only, leaves a finished request as it is, and leaves the model as it is.
SameInputsSameResponse ==
    \A r, q \in Reqs :
        (IsPost(r) /\ IsPost(q) /\ Finished(r) /\ Finished(q) /\ plot[r] = plot[q] /\ reply[r] = reply[q])
            => http[r] = http[q]

Untouched(r) ==
    /\ pc'[r] = pc[r] /\ route'[r] = route[r] /\ plot'[r] = plot[r] /\ prompt'[r] = prompt[r]
    /\ calls'[r] = calls[r] /\ reply'[r] = reply[r] /\ http'[r] = http[r]

OneRequestPerStep ==
    /\ model' = model
    /\ \A r \in Reqs : Finished(r) => Untouched(r)
    /\ \E r \in Reqs : \A q \in Reqs \ {r} : Untouched(q)

C9_RequestsIndependent == [](SameInputsSameResponse) /\ [][OneRequestPerStep]_vars

C9_Witness ==
    \E r, q \in Reqs : /\ r # q /\ IsPost(r) /\ IsPost(q) /\ plot[r] = plot[q]
                       /\ Finished(r) /\ calls[r] = 1 /\ http[r].status = 200
                       /\ pc[q] = "resumable" /\ reply[q].kind = "raise"

\* C10: a finished POST has one response, with status 200, 400, 503 or 500;
\* it is 200 exactly when the model is configured, the plot is non-empty and
\* the provider returned non-empty text, and then carries a non-empty
\* treatment; every other response is an error detail.
C10_Only200OnRealSuccess ==
    \A r \in Reqs : (IsPost(r) /\ Finished(r)) =>
        /\ http[r].status \in {200, 400, 503, 500}
        /\ http[r].status = 200 <=> (model # NoModel /\ Len(plot[r]) > 0 /\ TextReply(reply[r]))
        /\ http[r].status = 200 => (http[r].field = "treatment" /\ Len(http[r].text) > 0)
        /\ http[r].status # 200 => (http[r].field = "detail" /\ Len(http[r].text) > 0)

C10_Witness ==
    \E r, q \in Reqs : /\ IsPost(r) /\ Finished(r) /\ http[r].status = 200
                       /\ IsPost(q) /\ Finished(q) /\ EmptyReply(reply[q]) /\ http[q].status = 500

====
